---- MODULE Spec2Model ----
(***************************************************************************)
(* Relational ingestion of bibliographic records (GitAmina/Chatbot_Scopus). *)
(*                                                                         *)
(* Two programs write two SQLite files:                                    *)
(*   src/processing/database.py      (arXiv CSV  -> db.sqlite)             *)
(*   src/processing/data_cleaning.py (Scopus raw -> scopus.sqlite)         *)
(*                                                                         *)
(* Text is modelled as a sequence of one-character strings, so that        *)
(* str.split and str.strip are computed and not assumed.  A table with an  *)
(* AUTOINCREMENT key that is never deleted from is a sequence of rows; the *)
(* id of a row is its index.                                               *)
(***************************************************************************)
EXTENDS Integers, Sequences, FiniteSets, TLC

\* ------------------------------------------------------------------------
\* Bounds of the model
\* ------------------------------------------------------------------------
\* rows read from CSV files, over all runs of main()
MaxRows == 2
\* rows of one CSV file, where the file is fixed at load time
MaxBatch == 2
\* direct calls of the store functions
MaxCalls == 3
\* pieces of a text handed to the text cleaners
MaxPieces == 3
\* records of one Scopus file, and runs of data_cleaning.py main()
MaxScopusBatch == 2
MaxScopusRuns == 2

\* ------------------------------------------------------------------------
\* Values
\* ------------------------------------------------------------------------
\* SQL NULL / pandas NaN in a column of atomic values
NULL == "NULL"
\* pandas NaN in a column of text (text is a sequence of characters)
NaN == <<"NaN">>

ArxivIds == {"a1", "a2"}
Titles == {"t1"}
Abstracts == {"abs"}
\* the doi column of a cleaned arXiv file: a doi or the text 'AUCUN'
ArxivDois == {"10.1", "AUCUN"}
CatCodes == {<<"c">>}

Range(s) == {s[i] : i \in DOMAIN s}

NonEmptySeqsUpTo(S, n) == UNION {[1..k -> S] : k \in 1..n}

\* ------------------------------------------------------------------------
\* Python str operations
\* ------------------------------------------------------------------------
\* sep.join(parts)
RECURSIVE Join(_, _)
Join(parts, sep) ==
    IF parts = <<>> THEN <<>>
    ELSE IF Len(parts) = 1 THEN parts[1]
    ELSE parts[1] \o sep \o Join(Tail(parts), sep)

\* s.split(c) for a one-character separator c: never an empty list
RECURSIVE Split(_, _)
Split(s, c) ==
    IF s = <<>> THEN << <<>> >>
    ELSE LET rest == Split(Tail(s), c)
         IN  IF Head(s) = c THEN << <<>> >> \o rest
             ELSE << <<Head(s)>> \o Head(rest) >> \o Tail(rest)

\* the characters str.strip() removes, among those of the model
Whitespace == {" ", "\n", "\r", "\t"}

RECURSIVE LStrip(_)
LStrip(s) ==
    IF s # <<>> /\ Head(s) \in Whitespace THEN LStrip(Tail(s)) ELSE s

RECURSIVE RStrip(_)
RStrip(s) ==
    IF s # <<>> /\ s[Len(s)] \in Whitespace
    THEN RStrip(SubSeq(s, 1, Len(s) - 1)) ELSE s

\* s.strip()
Strip(s) == RStrip(LStrip(s))

IsPrefix(p, s) == Len(p) <= Len(s) /\ SubSeq(s, 1, Len(p)) = p

\* s.replace(old, new), old not empty: the occurrences of old are taken from
\* the left and do not overlap
RECURSIVE Replace(_, _, _)
Replace(s, old, new) ==
    IF s = <<>> THEN <<>>
    ELSE IF IsPrefix(old, s)
         THEN new \o Replace(SubSeq(s, Len(old) + 1, Len(s)), old, new)
    ELSE <<Head(s)>> \o Replace(Tail(s), old, new)

\* [x.strip() for x in raw.split(';') if x.strip()]
StripMap(parts) == [i \in DOMAIN parts |-> Strip(parts[i])]

NonEmpty(p) == p # <<>>

SplitStrip(raw) == SelectSeq(StripMap(Split(raw, ";")), NonEmpty)

\* ------------------------------------------------------------------------
\* Input rows of the cleaned arXiv CSV (database.py reads them with
\* pd.read_csv, which turns an empty cell into NaN)
\* ------------------------------------------------------------------------
X == <<"X">>
Y == <<"Y">>

AuthorLists == {<<X>>, <<X, Y>>, <<Y, X>>, <<X, X>>}

AuthorFields == {NaN} \cup {Join(l, <<";", " ">>) : l \in AuthorLists}

CategoryFields == {NaN} \cup {Join(l, <<";", " ">>) : l \in {<<c>> : c \in CatCodes}}

Records ==
    [arxiv_id : ArxivIds \cup {NULL},
     title : Titles \cup {NULL},
     abstract : Abstracts,
     doi : {"AUCUN"},
     authors : AuthorFields,
     categories : CategoryFields]

\* article dicts handed to insert_article: what it reads of them
Articles ==
    [arxiv_id : ArxivIds,
     title : Titles,
     abstract : Abstracts \cup {NULL},
     doi : ArxivDois \cup {NULL}]

\* ------------------------------------------------------------------------
\* Text cleaning (data_cleaning.py clean_text, arxiv_api.py _clean_text)
\* ------------------------------------------------------------------------
Amp == <<"&", "a", "m", "p", ";">>
Quot == <<"&", "q", "u", "o", "t", ";">>
Gt == <<"&", "g", "t", ";">>
Lt == <<"&", "l", "t", ";">>
Apos == <<"&", "#", "3", "9", ";">>

\* replacements of clean_text, in the order of the list
replacements ==
    << <<<<"\n">>, <<" ">>>>, <<<<"\r">>, <<" ">>>>, <<<<"\t">>, <<" ">>>>,
       <<Amp, <<"&">>>>, <<Quot, <<"\"">>>>, <<Gt, <<">">>>>,
       <<Lt, <<"<">>>>, <<Apos, <<"'">>>> >>

\* for old, new in replacements: cleaned = cleaned.replace(old, new)
RECURSIVE ReplaceAll(_, _)
ReplaceAll(cleaned, reps) ==
    IF reps = <<>> THEN cleaned
    ELSE ReplaceAll(Replace(cleaned, Head(reps)[1], Head(reps)[2]), Tail(reps))

\* DataCleaner.clean_text(text)
clean_text(text) ==
    IF text = NaN THEN text ELSE Strip(ReplaceAll(text, replacements))

\* ArXivExtractor._clean_text(text): "" for None (here NaN) and for ""
_clean_text(text) ==
    IF text = NaN \/ text = <<>> THEN <<>>
    ELSE Strip(Replace(text, <<"\n">>, <<" ">>))

\* pieces of the texts handed to the cleaners: entities, ends of entities,
\* a letter and whitespace
Pieces ==
    {Amp, Lt, <<"a", "m", "p", ";">>, <<"l", "t", ";">>,
     <<"x">>, <<" ">>, <<"\n">>, <<"\t">>}

RECURSIVE Concat(_)
Concat(ps) == IF ps = <<>> THEN <<>> ELSE Head(ps) \o Concat(Tail(ps))

Texts == {NaN} \cup {Concat(ps) : ps \in NonEmptySeqsUpTo(Pieces, MaxPieces)}

\* ------------------------------------------------------------------------
\* Entries of the arXiv feed and the CSV row save_combined_data writes for
\* each (arxiv_api.py)
\* ------------------------------------------------------------------------
M == <<"M">>

\* _parse_author: the name and the affiliation, None (here NaN) without one
EntryAuthors ==
    {[name |-> X, affiliation |-> NaN],
     [name |-> X, affiliation |-> M],
     [name |-> Y, affiliation |-> NaN]}

EntryAuthorLists ==
    {<<a>> : a \in EntryAuthors}
    \cup {<<[name |-> X, affiliation |-> M], [name |-> Y, affiliation |-> NaN]>>,
          <<[name |-> Y, affiliation |-> NaN], [name |-> X, affiliation |-> M]>>}

EntryCategoryLists == {<<c>> : c \in CatCodes} \cup {<<c, <<"d">> >> : c \in CatCodes}

Entries ==
    [arxiv_id : ArxivIds,
     title : Titles,
     summary : Abstracts,
     doi : {NULL},
     authors : EntryAuthorLists,
     categories : EntryCategoryLists]

\* the delimiter of the categories column: '|' in the file save_combined_data
\* writes, '; ' in a file whose categories are written like its authors
Delimiters == {<<"|">>, <<";", " ">>}

\* f"{a['name']}" + (f" ({a['affiliation']})" if a['affiliation'] else "")
AuthorText(a) ==
    a.name \o (IF a.affiliation = NaN \/ a.affiliation = <<>> THEN <<>>
               ELSE <<" ", "(">> \o a.affiliation \o <<")">>)

\* a cell written by DataFrame.to_csv and read back by pd.read_csv: the
\* empty text comes back as NaN
ReadCell(text) == IF text = <<>> THEN NaN ELSE text

\* the row of csv_data for one article, as pd.read_csv gives it back, with
\* the categories joined by delim
CsvRow(e, delim) ==
    [arxiv_id |-> e.arxiv_id,
     title |-> e.title,
     abstract |-> e.summary,
     doi |-> e.doi,
     authors |-> ReadCell(Join([i \in DOMAIN e.authors |-> AuthorText(e.authors[i])],
                               <<";", " ">>)),
     categories |-> ReadCell(Join(e.categories, delim))]

\* ------------------------------------------------------------------------
\* db.sqlite
\* ------------------------------------------------------------------------
create_tables ==
    [articles |-> <<>>,
     authors |-> <<>>,
     article_authors |-> {},
     categories |-> <<>>,
     article_categories |-> {}]

\* SELECT id FROM t WHERE col = v : the ids of the matching rows.
\* A comparison with NULL is never true in SQL.
SelectIds(table, col, v, null) ==
    IF v = null THEN {}
    ELSE {i \in DOMAIN table : table[i][col] = v}

MinOf(S) == CHOOSE x \in S : \A y \in S : x <= y

\* get-or-create that also rewrites the affiliation of a stored author
get_author_id_overwrite(d, name, affiliation) ==
    LET found == SelectIds(d.authors, "name", name, NaN)
    IN  IF found # {}
        THEN [db |-> [d EXCEPT !.authors[MinOf(found)].affiliation = affiliation],
              id |-> MinOf(found)]
        ELSE [db |-> [d EXCEPT !.authors =
                         Append(@, [name |-> name, affiliation |-> affiliation])],
              id |-> Len(d.authors) + 1]

\* get_author_id(conn, name, affiliation=None)
get_author_id(d, name, affiliation) ==
    LET found == SelectIds(d.authors, "name", name, NaN)
    IN  IF found # {}
        THEN [db |-> d, id |-> MinOf(found)]
        ELSE [db |-> [d EXCEPT !.authors =
                         Append(@, [name |-> name, affiliation |-> affiliation])],
              id |-> Len(d.authors) + 1]

\* get_category_id(conn, name)
get_category_id(d, name) ==
    LET found == SelectIds(d.categories, "name", name, NaN)
    IN  IF found # {}
        THEN [db |-> d, id |-> MinOf(found)]
        ELSE [db |-> [d EXCEPT !.categories = Append(@, [name |-> name])],
              id |-> Len(d.categories) + 1]

\* the VALUES of insert_article's INSERT: the doi 'AUCUN' is stored as NULL
\* (a NaN is bound as NULL by sqlite3)
ArticleValues(article) ==
    [arxiv_id |-> article.arxiv_id,
     title |-> article.title,
     abstract |-> article.abstract,
     doi |-> IF article.doi = "AUCUN" THEN NULL ELSE article.doi]

\* insert_article that stores the doi column as it is in the file
insert_article_verbatim(d, article) ==
    LET conflict == SelectIds(d.articles, "arxiv_id", article.arxiv_id, NULL) # {}
        d1 == IF conflict THEN d
              ELSE [d EXCEPT !.articles =
                       Append(@, [arxiv_id |-> article.arxiv_id,
                                  title |-> article.title,
                                  abstract |-> article.abstract,
                                  doi |-> article.doi])]
        found == SelectIds(d1.articles, "arxiv_id", article.arxiv_id, NULL)
    IN  IF found = {}
        THEN [db |-> d1, id |-> 0, raised |-> TRUE]
        ELSE [db |-> d1, id |-> MinOf(found), raised |-> FALSE]

\* INSERT OR REPLACE instead of INSERT OR IGNORE: the stored row is rewritten
insert_article_replace(d, article) ==
    LET old == SelectIds(d.articles, "arxiv_id", article.arxiv_id, NULL)
        new == ArticleValues(article)
        d1 == IF old # {}
              THEN [d EXCEPT !.articles = [i \in DOMAIN @ |-> IF i \in old THEN new ELSE @[i]]]
              ELSE [d EXCEPT !.articles = Append(@, new)]
        found == SelectIds(d1.articles, "arxiv_id", article.arxiv_id, NULL)
    IN  IF found = {}
        THEN [db |-> d1, id |-> 0, raised |-> TRUE]
        ELSE [db |-> d1, id |-> MinOf(found), raised |-> FALSE]

\* insert_article(conn, article): INSERT OR IGNORE on the UNIQUE arxiv_id,
\* commit, then SELECT id ... WHERE arxiv_id = ? and fetchone()[0].
\* With a NULL arxiv_id the UNIQUE constraint never conflicts, the row is
\* inserted and committed, the SELECT finds nothing and fetchone()[0]
\* raises TypeError.
insert_article(d, article) ==
    LET conflict == SelectIds(d.articles, "arxiv_id", article.arxiv_id, NULL) # {}
        d1 == IF conflict THEN d
              ELSE [d EXCEPT !.articles = Append(@, ArticleValues(article))]
        found == SelectIds(d1.articles, "arxiv_id", article.arxiv_id, NULL)
    IN  IF found = {}
        THEN [db |-> d1, id |-> 0, raised |-> TRUE]
        ELSE [db |-> d1, id |-> MinOf(found), raised |-> FALSE]

\* INSERT OR IGNORE INTO article_authors (article_id, author_id, position)
link_article_author(d, article_id, author_id, pos) ==
    IF \E l \in d.article_authors :
           l.article_id = article_id /\ l.author_id = author_id
    THEN d
    ELSE [d EXCEPT !.article_authors =
             @ \cup {[article_id |-> article_id, author_id |-> author_id,
                      position |-> pos]}]

\* INSERT OR IGNORE INTO article_categories (article_id, category_id)
link_article_category(d, article_id, cat_id) ==
    [d EXCEPT !.article_categories =
        @ \cup {[article_id |-> article_id, category_id |-> cat_id]}]

\* enumerate(authors_list, 1) instead of enumerate(authors_list)
RECURSIVE InsertAuthorsOneBased(_, _, _, _)
InsertAuthorsOneBased(d, article_id, authors_list, pos) ==
    IF pos >= Len(authors_list) THEN d
    ELSE LET r == get_author_id(d, authors_list[pos + 1], NULL)
         IN  InsertAuthorsOneBased(
                 link_article_author(r.db, article_id, r.id, pos + 1),
                 article_id, authors_list, pos + 1)

\* for pos, name in enumerate(authors_list): ... (pos is 0-based)
RECURSIVE InsertAuthors(_, _, _, _)
InsertAuthors(d, article_id, authors_list, pos) ==
    IF pos >= Len(authors_list) THEN d
    ELSE LET r == get_author_id(d, authors_list[pos + 1], NULL)
         IN  InsertAuthors(link_article_author(r.db, article_id, r.id, pos),
                           article_id, authors_list, pos + 1)

\* for cat_name in categories: ...
RECURSIVE InsertCategories(_, _, _)
InsertCategories(d, article_id, cats) ==
    IF cats = <<>> THEN d
    ELSE LET r == get_category_id(d, Head(cats))
         IN  InsertCategories(link_article_category(r.db, article_id, r.id),
                              article_id, Tail(cats))

\* the text of an entry up to its parenthesis
RECURSIVE BeforeParenthesis(_)
BeforeParenthesis(s) ==
    IF s = <<>> \/ Head(s) = "(" THEN <<>>
    ELSE <<Head(s)>> \o BeforeParenthesis(Tail(s))

\* an authors_list whose names leave out a parenthesised affiliation
AuthorsListWithoutAffiliation(row) ==
    IF row.authors = NaN THEN <<>>
    ELSE LET l == SplitStrip(row.authors)
         IN  [i \in DOMAIN l |-> Strip(BeforeParenthesis(l[i]))]

\* authors_list of one row: pd.notna(authors_raw) guards the split
AuthorsList(row) ==
    IF row.authors = NaN THEN <<>> ELSE SplitStrip(row.authors)

\* categories of one row
CategoriesList(row) ==
    IF row.categories = NaN \/ Strip(row.categories) = <<>> THEN <<>>
    ELSE SplitStrip(row.categories)

\* The body of the loop of main() for one row.  Every statement commits, so
\* a raise leaves what was written before it.
MainRow(d, row) ==
    LET a == insert_article(d, row)
    IN  IF a.raised
        THEN [db |-> a.db, article_id |-> 0, raised |-> TRUE]
        ELSE LET d1 == InsertAuthors(a.db, a.id, AuthorsList(row), 0)
                 d2 == InsertCategories(d1, a.id, CategoriesList(row))
             IN  [db |-> d2, article_id |-> a.id, raised |-> FALSE]

\* update_author_affiliations(conn)
CountLinks(d, author_id) ==
    Cardinality({l \in d.article_authors : l.author_id = author_id})

update_author_affiliations(d) ==
    [d EXCEPT !.authors =
        [i \in DOMAIN @ |-> [@[i] EXCEPT !.affiliation = ToString(CountLinks(d, i))]]]

\* The whole of main() over the rows of one DataFrame, from store d
RECURSIVE RunRows(_, _)
RunRows(d, rs) ==
    IF rs = <<>> THEN [db |-> d, raised |-> FALSE]
    ELSE LET res == MainRow(d, Head(rs))
         IN  IF res.raised THEN [db |-> res.db, raised |-> TRUE]
             ELSE RunRows(res.db, Tail(rs))

RunMain(d, rs) ==
    LET res == RunRows(d, rs)
    IN  IF res.raised THEN res
        ELSE [db |-> update_author_affiliations(res.db), raised |-> FALSE]

\* ------------------------------------------------------------------------
\* data_cleaning.py: Scopus records and scopus.sqlite
\* ------------------------------------------------------------------------
ScopusIds == {"s1", "s2"}
Dois == {"d1"}

\* one entry of a record's 'author' field: '@auid' and affiliation[0]['@id']
\* ('' when the author has no affiliation)
D1 == [auid |-> "u1", affid |-> "f1"]
D2 == [auid |-> "u2", affid |-> "f2"]
D3 == [auid |-> "u2", affid |-> ""]

\* The 'author' field as load_data gives it: NaN, a list of dicts (JSON
\* file) or the text of such a list (CSV file); decodes tells whether
\* json.loads accepts the text once ' is replaced by ".
ScopusAuthorFields ==
    {[shape |-> "nan", entries |-> <<>>, decodes |-> FALSE]}
    \cup {[shape |-> "str", entries |-> l, decodes |-> TRUE] :
            l \in {<<D1>>, <<D2>>, <<D3>>, <<D1, D2>>}}
    \cup {[shape |-> "str", entries |-> <<D1>>, decodes |-> FALSE]}
    \cup {[shape |-> "list", entries |-> l, decodes |-> FALSE] :
            l \in {<<D1>>, <<D1, D2>>}}

ScopusRecords ==
    [identifier : ScopusIds \cup {NULL},
     doi : Dois \cup {NULL},
     description : {NaN},
     author : ScopusAuthorFields]

\* records without authors, whose abstract ('dc:description') is missing or
\* a text
FieldRecords ==
    [identifier : ScopusIds,
     doi : Dois \cup {NULL},
     description : {NaN, <<"x">>, <<"x", "\n">>},
     author : {[shape |-> "nan", entries |-> <<>>, decodes |-> FALSE]}]

\* files of one record
FieldFiles == {<<r>> : r \in FieldRecords}

ScopusFiles == NonEmptySeqsUpTo(ScopusRecords, MaxScopusBatch)

\* DataCleaner.create_database_schema on a new file
create_database_schema ==
    [articles |-> <<>>,
     authors |-> <<>>,
     affiliations |-> <<>>,
     article_author |-> {},
     author_affiliation |-> {}]

\* DataCleaner.extract_authors_info(authors_entry).
\* pd.isna of a list is an array: "if" on it raises ValueError when the
\* list has two or more entries.
extract_authors_info(entry) ==
    IF entry.shape = "nan" THEN [raised |-> FALSE, authors |-> <<>>]
    ELSE IF entry.shape = "list" /\ Len(entry.entries) >= 2
         THEN [raised |-> TRUE, authors |-> <<>>]
    ELSE IF entry.shape = "str" /\ ~entry.decodes
         THEN [raised |-> FALSE, authors |-> <<>>]
    ELSE [raised |-> FALSE,
          authors |-> [i \in DOMAIN entry.entries |->
                          [scopus_id |-> entry.entries[i].auid,
                           affiliation_id |-> entry.entries[i].affid]]]

\* df.drop_duplicates(subset=['dc:identifier', 'prism:doi'], keep='first')
RECURSIVE DropDuplicates(_, _)
DropDuplicates(rs, kept) ==
    IF rs = <<>> THEN kept
    ELSE LET r == Head(rs)
             dup == \E i \in DOMAIN kept :
                        kept[i].identifier = r.identifier /\ kept[i].doi = r.doi
         IN  DropDuplicates(Tail(rs), IF dup THEN kept ELSE Append(kept, r))

AbstractNotAvailable == <<"Abstract not available">>

\* Series.fillna(value)
fillna(v, value) == IF v = NaN THEN value ELSE v

\* DataCleaner.clean_dataframe(df), for the columns the store uses
clean_dataframe(rs) ==
    LET df1 == DropDuplicates(rs, <<>>)
    IN  [i \in DOMAIN df1 |->
            [df1[i] EXCEPT !.description =
                fillna(clean_text(@), AbstractNotAvailable)]]

\* DataFrame.drop_duplicates('scopus_id') on a list of keys
RECURSIVE DropDuplicateKeys(_, _)
DropDuplicateKeys(ks, kept) ==
    IF ks = <<>> THEN kept
    ELSE DropDuplicateKeys(Tail(ks),
             IF Head(ks) \in Range(kept) THEN kept ELSE Append(kept, Head(ks)))

\* DataFrame.to_sql(table, if_exists='append') of rows whose UNIQUE columns
\* are cols: one transaction of plain INSERTs, IntegrityError and rollback
\* when a non-NULL value of a UNIQUE column is already there.
RECURSIVE AppendRows(_, _, _)
AppendRows(table, new, cols) ==
    IF new = <<>> THEN [raised |-> FALSE, table |-> table]
    ELSE LET r == Head(new)
             clash == \E c \in cols : \E i \in DOMAIN table :
                          r[c] # NULL /\ table[i][c] = r[c]
         IN  IF clash THEN [raised |-> TRUE, table |-> table]
             ELSE AppendRows(Append(table, r), Tail(new), cols)

\* to_sql on a link table, whose PRIMARY KEY is the whole row
RECURSIVE AppendLinks(_, _)
AppendLinks(table, new) ==
    IF new = <<>> THEN [raised |-> FALSE, table |-> table]
    ELSE IF Head(new) \in table THEN [raised |-> TRUE, table |-> table]
    ELSE AppendLinks(table \cup {Head(new)}, Tail(new))

\* the empty accumulators of save_to_database's loop
NoLinks ==
    [authors_data |-> <<>>, affiliations_data |-> <<>>,
     article_author_links |-> <<>>, author_affiliation_links |-> <<>>]

\* "for author in authors:" of save_to_database, for one article
RECURSIVE CollectAuthors(_, _, _)
CollectAuthors(acc, article, authors) ==
    IF authors = <<>> THEN acc
    ELSE LET a == Head(authors)
             ad == Append(acc.authors_data, a.scopus_id)
             af == IF a.affiliation_id # ""
                   THEN Append(acc.affiliations_data, a.affiliation_id)
                   ELSE acc.affiliations_data
             author_idx == Len(ad) - 1
             aal == Append(acc.article_author_links,
                           [article_id |-> article, author_id |-> author_idx + 1])
             afl == IF a.affiliation_id # ""
                    THEN Append(acc.author_affiliation_links,
                                [author_id |-> author_idx + 1,
                                 affiliation_id |-> Len(af)])
                    ELSE acc.author_affiliation_links
         IN  CollectAuthors([authors_data |-> ad, affiliations_data |-> af,
                             article_author_links |-> aal,
                             author_affiliation_links |-> afl],
                            article, Tail(authors))

\* "for _, row in df.iterrows():" of save_to_database: articles is the
\* table read back after the insert.  values[0] raises IndexError when no
\* stored scopus_id equals the row's identifier (a NaN never does).
RECURSIVE CollectRows(_, _, _)
CollectRows(acc, articles, rs) ==
    IF rs = <<>> THEN [raised |-> "", acc |-> acc]
    ELSE LET found == SelectIds(articles, "scopus_id", Head(rs).identifier, NULL)
             ex == extract_authors_info(Head(rs).author)
         IN  IF found = {} THEN [raised |-> "IndexError", acc |-> acc]
             ELSE IF ex.raised THEN [raised |-> "ValueError", acc |-> acc]
             ELSE CollectRows(CollectAuthors(acc, MinOf(found), ex.authors),
                              articles, Tail(rs))

KeyRows(ks) == [i \in DOMAIN ks |-> [scopus_id |-> ks[i]]]

\* DataCleaner.save_to_database(df) on store d: the store it leaves and the
\* place where it raised ("" when it returned)
save_to_database(d, rs) ==
    LET arts == AppendRows(d.articles,
                    [i \in DOMAIN rs |-> [scopus_id |-> rs[i].identifier,
                                          doi |-> rs[i].doi,
                                          abstract |-> rs[i].description]],
                    {"scopus_id", "doi"})
        d1 == [d EXCEPT !.articles = arts.table]
        col == CollectRows(NoLinks, d1.articles, rs)
        auth == AppendRows(d1.authors,
                    KeyRows(DropDuplicateKeys(col.acc.authors_data, <<>>)),
                    {"scopus_id"})
        d2 == [d1 EXCEPT !.authors = auth.table]
        affs == AppendRows(d2.affiliations,
                    KeyRows(DropDuplicateKeys(col.acc.affiliations_data, <<>>)),
                    {"scopus_id"})
        d3 == [d2 EXCEPT !.affiliations = affs.table]
        aal == AppendLinks(d3.article_author, col.acc.article_author_links)
        d4 == [d3 EXCEPT !.article_author = aal.table]
        afl == AppendLinks(d4.author_affiliation, col.acc.author_affiliation_links)
        d5 == [d4 EXCEPT !.author_affiliation = afl.table]
    IN  IF arts.raised THEN [db |-> d, raised |-> "articles"]
        ELSE IF col.raised # "" THEN [db |-> d1, raised |-> col.raised]
        ELSE IF auth.raised THEN [db |-> d1, raised |-> "authors"]
        ELSE IF affs.raised THEN [db |-> d2, raised |-> "affiliations"]
        ELSE IF aal.raised THEN [db |-> d3, raised |-> "article_author"]
        ELSE IF afl.raised THEN [db |-> d4, raised |-> "author_affiliation"]
        ELSE [db |-> d5, raised |-> ""]

\* ------------------------------------------------------------------------
\* State
\* ------------------------------------------------------------------------
VARIABLES
    db,          \* content of db.sqlite (committed)
    pc,          \* "idle", "loop", "done", "crashed": position of main()
    rows,        \* number of CSV rows read so far, over all runs
    article_id,  \* main()'s local: last id returned by insert_article
    row,         \* main()'s local: the last row iterated
    df,          \* SpecBatch: the DataFrame read by pd.read_csv
    idx,         \* SpecBatch: number of rows of df already iterated
    runs,        \* SpecBatch: runs of main() started
    first,       \* SpecBatch: db.sqlite as the first run left it
    call,        \* SpecApi: the last direct call of a store function
    article,     \* SpecCsv: the feed entry of the last row iterated
    delim,       \* SpecCsv: the delimiter of that row's categories column
    text,        \* SpecText: the text, as the last cleaner returned it
    cleaner,     \* SpecText: the cleaner applied last, "none" before any
    sdf,         \* SpecFields: the DataFrame load_data returned in the last run
    sdb,         \* SpecScopus: content of scopus.sqlite (committed)
    serror,      \* SpecScopus: where the last run raised, "" if it did not
    sruns        \* SpecScopus: runs of data_cleaning.py main()

vars == <<db, pc, rows, article_id, row, df, idx, runs, first, call,
          article, delim, text, cleaner, sdf, sdb, serror, sruns>>

arxivVars == <<db, pc, rows, article_id, row, df, idx, runs, first, call>>

scopusVars == <<sdb, serror, sruns>>

batchVars == <<df, idx, runs, first>>

csvVars == <<article, delim>>

textVars == <<text, cleaner>>

NoEntry ==
    [arxiv_id |-> NULL, title |-> NULL, summary |-> NULL, doi |-> NULL,
     authors |-> <<>>, categories |-> <<>>]

NoRow ==
    [arxiv_id |-> NULL, title |-> NULL, abstract |-> NULL, doi |-> NULL,
     authors |-> NaN, categories |-> NaN]

NoArticle == [arxiv_id |-> NULL, title |-> NULL, abstract |-> NULL, doi |-> NULL]

NoCall ==
    [fn |-> "none", name |-> NaN, affiliation |-> NULL, article |-> NoArticle,
     id |-> 0, n |-> 0]

InitStores ==
    /\ db = create_tables
    /\ pc = "idle"
    /\ rows = 0
    /\ article_id = 0
    /\ row = NoRow
    /\ df = <<>>
    /\ idx = 0
    /\ runs = 0
    /\ first = create_tables
    /\ call = NoCall
    /\ article = NoEntry
    /\ delim = <<"|">>
    /\ sdf = <<>>
    /\ sdb = create_database_schema
    /\ serror = ""
    /\ sruns = 0

Init ==
    /\ InitStores
    /\ text = <<>>
    /\ cleaner = "none"

\* one iteration of "for idx, row in df.iterrows()" on row r
RowStep(r) ==
    /\ pc = "loop"
    /\ LET res == MainRow(db, r)
       IN  /\ db' = res.db
           /\ article_id' = res.article_id
           /\ pc' = IF res.raised THEN "crashed" ELSE "loop"
    /\ row' = r

\* the loop is over: update_author_affiliations(conn), conn.close()
FinishStep ==
    /\ pc = "loop"
    /\ db' = update_author_affiliations(db)
    /\ pc' = "done"
    /\ UNCHANGED <<article_id, row>>

\* ---- Spec: the CSV file is an unconstrained input, every iteration reads
\* ---- an arbitrary row
\* main(): load the CSV, connect, create_tables (IF NOT EXISTS)
Main_Load ==
    /\ pc \in {"idle", "done", "crashed"}
    /\ pc' = "loop"
    /\ UNCHANGED <<db, rows, article_id, row, batchVars, call, scopusVars, csvVars, textVars, sdf>>

Main_Row(r) ==
    /\ rows < MaxRows
    /\ RowStep(r)
    /\ rows' = rows + 1
    /\ UNCHANGED <<batchVars, call, scopusVars, csvVars, textVars, sdf>>

Main_Finish ==
    /\ FinishStep
    /\ UNCHANGED <<rows, batchVars, call, scopusVars, csvVars, textVars, sdf>>

Next ==
    \/ Main_Load
    \/ \E r \in Records : Main_Row(r)
    \/ Main_Finish

Spec == Init /\ [][Next]_vars

\* ---- SpecCsv: every row main() iterates is the row of a feed entry, as
\* ---- save_combined_data writes it
Csv_Row(e, d) ==
    /\ rows < MaxRows
    /\ RowStep(CsvRow(e, d))
    /\ rows' = rows + 1
    /\ article' = e
    /\ delim' = d
    /\ UNCHANGED <<batchVars, call, scopusVars, textVars, sdf>>

NextCsv ==
    \/ Main_Load
    \/ \E e \in Entries, d \in Delimiters : Csv_Row(e, d)
    \/ Main_Finish

SpecCsv == Init /\ [][NextCsv]_vars

\* ---- SpecBatch: the CSV file is fixed when it is loaded; main() is run on
\* ---- it, and then run again on the same rows in some order
Batches == NonEmptySeqsUpTo(Records, MaxBatch)

Reorderings(d) ==
    {p \in [DOMAIN d -> Range(d)] :
        \E f \in Permutations(DOMAIN d) : p = [i \in DOMAIN d |-> d[f[i]]]}

Batch_Load(d) ==
    /\ pc = "idle"
    /\ runs = 0
    /\ pc' = "loop"
    /\ df' = d
    /\ idx' = 0
    /\ runs' = 1
    /\ UNCHANGED <<db, rows, article_id, row, first, call, scopusVars, csvVars, textVars, sdf>>

Batch_Reload(d) ==
    /\ pc \in {"done", "crashed"}
    /\ runs = 1
    /\ pc' = "loop"
    /\ df' = d
    /\ idx' = 0
    /\ runs' = 2
    /\ first' = db
    /\ UNCHANGED <<db, rows, article_id, row, call, scopusVars, csvVars, textVars, sdf>>

Batch_Row ==
    /\ idx < Len(df)
    /\ RowStep(df[idx + 1])
    /\ idx' = idx + 1
    /\ UNCHANGED <<rows, df, runs, first, call, scopusVars, csvVars, textVars, sdf>>

Batch_Finish ==
    /\ idx = Len(df)
    /\ FinishStep
    /\ UNCHANGED <<rows, batchVars, call, scopusVars, csvVars, textVars, sdf>>

NextBatch ==
    \/ \E d \in Batches : Batch_Load(d)
    \/ \E d \in Reorderings(df) : Batch_Reload(d)
    \/ Batch_Row
    \/ Batch_Finish

SpecBatch == Init /\ [][NextBatch]_vars

\* ---- SpecApi: the store functions of database.py called directly, in any
\* ---- order, on one connection
Affiliations == {NULL, "MIT"}

Api_get_author_id(name, affiliation) ==
    /\ call.n < MaxCalls
    /\ LET r == get_author_id(db, name, affiliation)
       IN  /\ db' = r.db
           /\ call' = [fn |-> "get_author_id", name |-> name,
                       affiliation |-> affiliation, article |-> NoArticle,
                       id |-> r.id, n |-> call.n + 1]
    /\ UNCHANGED <<pc, rows, article_id, row, batchVars, scopusVars, csvVars, textVars, sdf>>

Api_get_category_id(name) ==
    /\ call.n < MaxCalls
    /\ LET r == get_category_id(db, name)
       IN  /\ db' = r.db
           /\ call' = [fn |-> "get_category_id", name |-> name,
                       affiliation |-> NULL, article |-> NoArticle,
                       id |-> r.id, n |-> call.n + 1]
    /\ UNCHANGED <<pc, rows, article_id, row, batchVars, scopusVars, csvVars, textVars, sdf>>

Api_update_author_affiliations ==
    /\ call.n < MaxCalls
    /\ db' = update_author_affiliations(db)
    /\ call' = [fn |-> "update_author_affiliations", name |-> NaN,
                affiliation |-> NULL, article |-> NoArticle,
                id |-> 0, n |-> call.n + 1]
    /\ UNCHANGED <<pc, rows, article_id, row, batchVars, scopusVars, csvVars, textVars, sdf>>

NextApi ==
    \/ \E name \in {X, Y}, a \in Affiliations : Api_get_author_id(name, a)
    \/ \E name \in CatCodes \cup {<<"d">>} : Api_get_category_id(name)
    \/ Api_update_author_affiliations

SpecApi == Init /\ [][NextApi]_vars

\* ---- SpecText: a text cleaner applied to a text, and again to what a
\* ---- cleaner returned
InitText ==
    /\ InitStores
    /\ text \in Texts
    /\ cleaner = "none"

Text_clean_text ==
    /\ text' = clean_text(text)
    /\ cleaner' = "clean_text"
    /\ UNCHANGED <<arxivVars, csvVars, scopusVars, sdf>>

Text__clean_text ==
    /\ text' = _clean_text(text)
    /\ cleaner' = "_clean_text"
    /\ UNCHANGED <<arxivVars, csvVars, scopusVars, sdf>>

NextText ==
    \/ Text_clean_text
    \/ Text__clean_text

SpecText == InitText /\ [][NextText]_vars

\* ---- SpecScopus: data_cleaning.py main() run on one file after another
\* main(): load_data, clean_dataframe, save_to_csv, save_to_database
ScopusStep(file) ==
    /\ sruns < MaxScopusRuns
    /\ LET res == save_to_database(sdb, clean_dataframe(file))
       IN  /\ sdb' = res.db
           /\ serror' = res.raised
    /\ sruns' = sruns + 1
    /\ UNCHANGED <<arxivVars, csvVars, textVars>>

Scopus_Main(file) ==
    /\ ScopusStep(file)
    /\ UNCHANGED sdf

NextScopus == \E file \in ScopusFiles : Scopus_Main(file)

SpecScopus == Init /\ [][NextScopus]_vars

\* ---- SpecFields: one of the two programs at work on its store, with the
\* ---- abstract and the doi of its records as inputs: insert_article called
\* ---- on article dicts, or data_cleaning.py main() run on files
Api_insert_article(a) ==
    /\ call.n < MaxCalls
    /\ LET r == insert_article(db, a)
       IN  /\ db' = r.db
           /\ call' = [fn |-> "insert_article", name |-> NaN,
                       affiliation |-> NULL, article |-> a,
                       id |-> r.id, n |-> call.n + 1]
    /\ UNCHANGED <<pc, rows, article_id, row, batchVars, scopusVars, csvVars, textVars, sdf>>

Fields_Main(file) ==
    /\ ScopusStep(file)
    /\ sdf' = file

NextFields ==
    \/ sruns = 0 /\ \E a \in Articles : Api_insert_article(a)
    \/ call.n = 0 /\ \E file \in FieldFiles : Fields_Main(file)

SpecFields == Init /\ [][NextFields]_vars

\* ------------------------------------------------------------------------
\* Properties
\* ------------------------------------------------------------------------
Unique(table, col) ==
    \A i, j \in DOMAIN table : table[i][col] = table[j][col] => i = j

\* a step of Spec that iterates one row (the row is row')
IsRowStep == pc = "loop" /\ rows' = rows + 1

StoredIds(d, sid) == {i \in DOMAIN d.articles : d.articles[i].arxiv_id = sid}

\* C2: in every reachable store state no two article rows share a source
\* id (a missing source id included), no two author rows share a name and no
\* two category rows share a code.
C2_NaturalKeysUnique ==
    /\ Unique(db.articles, "arxiv_id")
    /\ Unique(db.authors, "name")
    /\ Unique(db.categories, "name")

\* C4: insert_article with a source id that is already stored inserts
\* nothing, leaves the article rows as they are and returns the id of the
\* stored row; with a new source id it appends exactly one row, made of the
\* record's fields, and returns its id.  The id returned always designates
\* the one row holding that source id, so two calls with the same source id
\* return the same id.
C4_StepOk ==
    (IsRowStep /\ row'.arxiv_id # NULL) =>
        LET old == StoredIds(db, row'.arxiv_id)
        IN  /\ pc' = "loop"
            /\ StoredIds(db', row'.arxiv_id) = {article_id'}
            /\ IF old # {}
               THEN db'.articles = db.articles /\ article_id' \in old
               ELSE /\ db'.articles = Append(db.articles,
                                             [arxiv_id |-> row'.arxiv_id,
                                              title |-> row'.title,
                                              abstract |-> row'.abstract,
                                              doi |-> IF row'.doi = "AUCUN"
                                                      THEN NULL ELSE row'.doi])
                    /\ article_id' = Len(db.articles) + 1

C4_UpsertArticle == [][C4_StepOk]_vars

\* C4 witness: two rows were read, both returned the id of the only article
\* row, and the second row carried another title than the stored one.
C4_Witness ==
    /\ pc = "loop"
    /\ rows = 2
    /\ Len(db.articles) = 1
    /\ article_id = 1
    /\ row.arxiv_id = db.articles[1].arxiv_id
    /\ row.title # db.articles[1].title

\* C5: a row whose title or source id is missing is skipped: the store is
\* as before the row and the loop goes on with the next row.
C5_StepSkips ==
    (IsRowStep /\ (row'.title = NULL \/ row'.arxiv_id = NULL)) =>
        (db' = db /\ pc' = "loop")

C5_MalformedSkipped == [][C5_StepSkips]_vars

\* C6: when a storage step of a row fails, what was written for that row is
\* rolled back: the store is as it was before the row.
C6_StepRollsBack == (pc = "loop" /\ pc' = "crashed") => db' = db

C6_FailureRollsBack == [][C6_StepRollsBack]_vars

NameOf(d, l) == d.authors[l.author_id].name

\* links of article a to the author named n
LinksTo(d, a, n) ==
    {l \in d.article_authors : l.article_id = a /\ NameOf(d, l) = n}

FirstIndex(s, x) == MinOf({i \in DOMAIN s : s[i] = x})

\* C8 as stated: when a row has been ingested (its article upsert returned
\* an id), every author a_i of its list has a link row to the row's article
\* whose position is i (counted from 0).
C8_StepOriginal ==
    (IsRowStep /\ pc' = "loop") =>
        LET al == AuthorsList(row')
        IN  \A i \in DOMAIN al :
                \E l \in LinksTo(db', article_id', al[i]) : l.position = i - 1

C8_PositionIsIndex == [][C8_StepOriginal]_vars

\* C8 amended: ingesting a row with a source id links every author of its
\* list to the row's article, by exactly one link row; a link that existed
\* before the row keeps its position, a new link has the index of the first
\* occurrence of the author in the list (i when the names are distinct).
\* A row without a source id writes no link row.
C8_StepOk ==
    IsRowStep =>
        LET al == AuthorsList(row')
        IN  IF row'.arxiv_id = NULL
            THEN db'.article_authors = db.article_authors
            ELSE \A i \in DOMAIN al :
                    LET new == LinksTo(db', article_id', al[i])
                        old == LinksTo(db, article_id', al[i])
                    IN  /\ Cardinality(new) = 1
                        /\ IF old # {} THEN new = old
                           ELSE \A l \in new : l.position = FirstIndex(al, al[i]) - 1

C8_PositionOfFirstOccurrence == [][C8_StepOk]_vars

\* C8 witness: a row with two different authors was ingested and its
\* article holds them at positions 0 and 1, in the order of the list.
C8_Witness ==
    /\ pc = "loop"
    /\ rows > 0
    /\ LET al == AuthorsList(row)
       IN  /\ Len(al) = 2
           /\ al[1] # al[2]
           /\ \E l \in LinksTo(db, article_id, al[1]) : l.position = 0
           /\ \E l \in LinksTo(db, article_id, al[2]) : l.position = 1

\* a step of SpecApi that calls fn (the call and its result are call')
IsCall(fn) == call'.n = call.n + 1 /\ call'.fn = fn

AuthorIds(d, n) == {i \in DOMAIN d.authors : d.authors[i].name = n}

\* C9: get_author_id is get-or-create by name.  When a row with the name
\* exists the call changes nothing in the store (the stored affiliation
\* stays, whatever affiliation is passed) and returns the id of that row;
\* otherwise it appends exactly one row with the name and the affiliation
\* passed and returns its id.  The id returned designates the one row with
\* that name, so repeated calls return the same id.
C9_StepOk ==
    IsCall("get_author_id") =>
        LET old == AuthorIds(db, call'.name)
        IN  /\ AuthorIds(db', call'.name) = {call'.id}
            /\ IF old # {}
               THEN db' = db /\ call'.id \in old
               ELSE /\ db' = [db EXCEPT !.authors =
                                 Append(@, [name |-> call'.name,
                                            affiliation |-> call'.affiliation])]
                    /\ call'.id = Len(db.authors) + 1

C9_GetOrCreateAuthor == [][C9_StepOk]_vars

\* C9 witness: get_author_id was called with an affiliation for a name that
\* was stored with another affiliation; the stored one is still there.
C9_Witness ==
    /\ call.fn = "get_author_id"
    /\ call.affiliation = "MIT"
    /\ call.id \in DOMAIN db.authors
    /\ db.authors[call.id].name = call.name
    /\ db.authors[call.id].affiliation # "MIT"

\* the content of a store without its surrogate ids: rows by natural key
LogicalContent(d) ==
    [articles |-> Range(d.articles),
     authors |-> Range(d.authors),
     categories |-> Range(d.categories),
     article_authors |->
         {[arxiv_id |-> d.articles[l.article_id].arxiv_id,
           name |-> d.authors[l.author_id].name,
           position |-> l.position] : l \in d.article_authors},
     article_categories |->
         {[arxiv_id |-> d.articles[l.article_id].arxiv_id,
           name |-> d.categories[l.category_id].name] : l \in d.article_categories}]

\* C1: when main() has been run a second time over the same rows, in the
\* same or another order, the second run has completed without error and
\* the store holds exactly the rows the first run left.
C1_SecondRunChangesNothing ==
    (runs = 2 /\ pc \in {"done", "crashed"}) => (pc = "done" /\ db = first)

\* C7: the store a run leaves, read by natural keys, is the same for every
\* order of the rows of the file, starting from an empty store.
C7_OrderIndependent ==
    (runs = 1 /\ pc \in {"done", "crashed"}) =>
        \A p \in Reorderings(df) :
            LogicalContent(RunMain(create_tables, p).db) = LogicalContent(db)

\* C7, for files in which every row has a source id
C7_OrderIndependentWithIds ==
    (runs = 1 /\ pc = "done" /\ \A i \in DOMAIN df : df[i].arxiv_id # NULL) =>
        \A p \in Reorderings(df) :
            LogicalContent(RunMain(create_tables, p).db) = LogicalContent(db)

\* C3: every article-author link row refers to a stored article and a
\* stored author, and every article-category link row to a stored article
\* and a stored category, in db.sqlite and in scopus.sqlite.
C3_NoDanglingLinks ==
    /\ \A l \in db.article_authors :
           l.article_id \in DOMAIN db.articles /\ l.author_id \in DOMAIN db.authors
    /\ \A l \in db.article_categories :
           l.article_id \in DOMAIN db.articles /\ l.category_id \in DOMAIN db.categories
    /\ \A l \in sdb.article_author :
           l.article_id \in DOMAIN sdb.articles /\ l.author_id \in DOMAIN sdb.authors

CountsStored(d) ==
    \A i \in DOMAIN d.authors :
        d.authors[i].affiliation = ToString(CountLinks(d, i))

\* C11: when a run of main() has ended, the recompute has run after the
\* last row: every author row holds, as its derived value, the number of
\* article_authors rows that refer to it.
C11_RecomputeAtEndOfRun ==
    pc \in {"done", "crashed"} => CountsStored(db)

\* C11, for the runs whose loop ends without an error: the recompute is the
\* last step, it leaves the counts stored, and it changes no author name,
\* no author id and no row of another table.
C11_StepFinish ==
    (pc = "loop" /\ pc' = "done") =>
        /\ CountsStored(db')
        /\ DOMAIN db'.authors = DOMAIN db.authors
        /\ \A i \in DOMAIN db.authors : db'.authors[i].name = db.authors[i].name
        /\ db'.articles = db.articles
        /\ db'.categories = db.categories
        /\ db'.article_authors = db.article_authors
        /\ db'.article_categories = db.article_categories

C11_RecomputeWhenLoopCompletes == [][C11_StepFinish]_vars

\* the entries of the row's author field, as save_combined_data wrote them
Entry(i) == AuthorText(article'.authors[i])

\* C12 as stated: a row whose author field is "name (affiliation); name"
\* yields one author per entry, in order, whose name is the name without the
\* parenthesis, and its article is linked to the author rows of these names.
C12_StepOriginal ==
    (IsRowStep /\ pc' = "loop") =>
        /\ AuthorsList(row') = [i \in DOMAIN article'.authors |-> article'.authors[i].name]
        /\ \A i \in DOMAIN article'.authors :
               LinksTo(db', article_id', article'.authors[i].name) # {}

C12_ParentheticalNotInName == [][C12_StepOriginal]_vars

\* C12 amended: the row yields one author per non-empty trimmed entry, in
\* the order of the field, and the name is the whole entry, parenthesis
\* included.  The row's article is linked to the author row of each entry,
\* every author row the row creates has a NULL affiliation, and the author
\* row of a name written with an affiliation is not the author row of the
\* same name written without.
C12_StepOk ==
    (IsRowStep /\ pc' = "loop") =>
        /\ AuthorsList(row') = [i \in DOMAIN article'.authors |-> Entry(i)]
        /\ \A i \in DOMAIN article'.authors :
               /\ Cardinality(LinksTo(db', article_id', Entry(i))) = 1
               /\ article'.authors[i].affiliation # NaN =>
                      \A l \in LinksTo(db', article_id', Entry(i)) :
                          l.author_id \notin AuthorIds(db', article'.authors[i].name)
        /\ \A j \in DOMAIN db'.authors \ DOMAIN db.authors :
               db'.authors[j].affiliation = NULL

C12_WholeEntryIsName == [][C12_StepOk]_vars

\* C12 witness: the author X came once with the affiliation M and once
\* without, and the store holds the author rows "X (M)" and "X".
C12_Witness ==
    /\ pc = "loop"
    /\ rows = 2
    /\ \E i \in DOMAIN article.authors : article.authors[i].affiliation = M
    /\ AuthorIds(db, X) # {}
    /\ AuthorIds(db, <<"X", " ", "(", "M", ")">>) # {}

\* C13: extract_authors_info never raises, whatever the raw author field
\* of a record is: no run of save_to_database ends on an error raised by the
\* extractor.
C13_ExtractorNeverRaises == serror # "ValueError"

\* names of the category rows linked to article a
CategoriesOf(d, a) ==
    {d.categories[l.category_id].name : l \in {k \in d.article_categories : k.article_id = a}}

\* C14: a row whose categories are pipe-delimited is ingested as the row
\* with the same categories semicolon-delimited: the store it leaves is the
\* one the semicolon form leaves, with one category row per code and the
\* row's article linked to each of them.
C14_StepOriginal ==
    (IsRowStep /\ pc' = "loop") =>
        /\ db' = MainRow(db, CsvRow(article', <<";", " ">>)).db
        /\ Range(article'.categories) \subseteq CategoriesOf(db', article_id')
        /\ \A i \in DOMAIN db'.categories :
               \E e \in Entries : db'.categories[i].name \in Range(e.categories)

C14_DelimitersEquivalent == [][C14_StepOriginal]_vars

\* C14, for the rows whose categories are semicolon-delimited
C14_StepSemicolon ==
    (IsRowStep /\ pc' = "loop" /\ delim' = <<";", " ">>) =>
        Range(article'.categories) \subseteq CategoriesOf(db', article_id')

C14_SemicolonFormSplits == [][C14_StepSemicolon]_vars

\* a text without a whitespace run: no two whitespace characters side by
\* side
NoWhitespaceRun(s) ==
    \A i \in DOMAIN s :
        i < Len(s) => ~(s[i] \in Whitespace /\ s[i + 1] \in Whitespace)

\* C15: a text cleaner applied to the text the same cleaner returned gives
\* that text back, texts with "&amp;amp;" or "&amp;lt;" included, and the
\* text a cleaner returns holds no whitespace run longer than one space.
C15_StepOriginal ==
    cleaner' # "none" =>
        /\ cleaner = cleaner' => text' = text
        /\ text' # NaN => NoWhitespaceRun(text')

C15_CleaningIdempotent == [][C15_StepOriginal]_vars

\* C15, idempotence alone
C15_StepSame == (cleaner # "none" /\ cleaner = cleaner') => text' = text

C15_SecondCleaningChangesNothing == [][C15_StepSame]_vars

\* C15, for texts without "&amp;": clean_text gives back what it returned
C15_StepNoAmp ==
    (cleaner = "clean_text" /\ cleaner' = "clean_text"
        /\ \A i \in DOMAIN text : ~IsPrefix(Amp, SubSeq(text, i, Len(text)))) =>
        text' = text

C15_IdempotentWithoutAmp == [][C15_StepNoAmp]_vars

\* a step of SpecFields that runs data_cleaning.py main() (the file is sdf')
IsFieldsRun == sruns' = sruns + 1

\* the article rows the step has appended to scopus.sqlite
NewArticles == SubSeq(sdb'.articles, Len(sdb.articles) + 1, Len(sdb'.articles))

\* C16 as stated: a record without an abstract is stored with the abstract
\* "No abstract available" and a record without a doi with the doi "NONE",
\* in db.sqlite and in scopus.sqlite.
C16_StepOriginal ==
    /\ (IsCall("insert_article") /\ Len(db'.articles) = Len(db.articles) + 1) =>
           LET new == db'.articles[Len(db'.articles)]
           IN  /\ call'.article.abstract = NULL => new.abstract = "No abstract available"
               /\ call'.article.doi \in {NULL, "AUCUN"} => new.doi = "NONE"
    /\ (IsFieldsRun /\ serror' # "articles") =>
           LET df1 == DropDuplicates(sdf', <<>>)
           IN  \A k \in DOMAIN df1 :
                   /\ df1[k].description = NaN =>
                          NewArticles[k].abstract = <<"No abstract available">>
                   /\ df1[k].doi = NULL => NewArticles[k].doi = "NONE"

C16_StepOk ==
    /\ (IsCall("insert_article") /\ Len(db'.articles) = Len(db.articles) + 1) =>
           LET new == db'.articles[Len(db'.articles)]
           IN  /\ new.abstract = call'.article.abstract
               /\ new.doi = IF call'.article.doi \in {NULL, "AUCUN"} THEN NULL
                            ELSE call'.article.doi
    /\ (IsFieldsRun /\ serror' # "articles") =>
           LET df1 == DropDuplicates(sdf', <<>>)
           IN  /\ Len(NewArticles) = Len(df1)
               /\ \A k \in DOMAIN df1 :
                      /\ NewArticles[k].abstract =
                             IF df1[k].description = NaN THEN AbstractNotAvailable
                             ELSE clean_text(df1[k].description)
                      /\ NewArticles[k].doi = df1[k].doi

C16_WitnessArxiv ==
    /\ call.fn = "insert_article"
    /\ call.article.doi = "AUCUN"
    /\ call.id = Len(db.articles)
    /\ db.articles[call.id].doi = NULL

TypeOK ==
    /\ pc \in {"idle", "loop", "done", "crashed"}
    /\ rows \in 0..MaxRows
====
